---- MODULE Spec2Model ----
(***************************************************************************)
(* Model of src/src/index.ts: a mail worker that extracts a 5-6 digit code *)
(* from inbound mail and stores it per recipient in a TTL key-value store, *)
(* and an authorized HTTP lookup of the stored code.                       *)
(*                                                                         *)
(* Strings are sequences of one-character strings, so that the regular     *)
(* expressions, toLowerCase, trim, slice and decodeURIComponent are        *)
(* computed character by character.  Null (null / undefined) is a          *)
(* sequence no string equals.                                              *)
(***************************************************************************)
EXTENDS Integers, Sequences, FiniteSets, TLC

(* ------------------------------ bounds --------------------------------- *)
\* longest text enumerated for extractCode
MaxTextLen == 8
\* inbound messages handled in one behaviour
MaxMessages == 2
\* clock advances in one behaviour
MaxAdvances == 2

(* ---------------------------- characters ------------------------------- *)
Null == <<"null">>

UpperSeq == <<"A","B","C","D","E","F","G","H","I","J","K","L","M",
              "N","O","P","Q","R","S","T","U","V","W","X","Y","Z">>
LowerSeq == <<"a","b","c","d","e","f","g","h","i","j","k","l","m",
              "n","o","p","q","r","s","t","u","v","w","x","y","z">>
DigitSeq == <<"0","1","2","3","4","5","6","7","8","9">>

SeqRange(q) == {q[i] : i \in 1..Len(q)}

Upper == SeqRange(UpperSeq)
Lower == SeqRange(LowerSeq)
Letter == Upper \cup Lower
\* \d
Digit == SeqRange(DigitSeq)
\* \w, the class \b is defined by
WordChar == Letter \cup Digit \cup {"_"}
\* \s, as far as the inputs go: what trim() and parseInt skip
WhiteSpace == {" ", "\t", "\n", "\r"}
\* [A-Z0-9._%+-] under the i flag
LocalClass == Letter \cup Digit \cup {".", "_", "%", "+", "-"}
\* [A-Z0-9.-] under the i flag
DomainClass == Letter \cup Digit \cup {".", "-"}

IndexIn(q, c) == CHOOSE i \in 1..Len(q) : q[i] = c

ToLowerChar(c) == IF c \in Upper THEN LowerSeq[IndexIn(UpperSeq, c)] ELSE c

toLowerCase(s) == [i \in 1..Len(s) |-> ToLowerChar(s[i])]

\* s.slice(from - 1), with from a 1-based index
SliceFrom(s, from) == IF from > Len(s) THEN <<>> ELSE SubSeq(s, from, Len(s))

startsWith(s, p) == Len(s) >= Len(p) /\ SubSeq(s, 1, Len(p)) = p

RECURSIVE TrimLeft(_)
TrimLeft(s) ==
  IF s # <<>> /\ Head(s) \in WhiteSpace THEN TrimLeft(Tail(s)) ELSE s

RECURSIVE TrimRight(_)
TrimRight(s) ==
  IF s # <<>> /\ s[Len(s)] \in WhiteSpace
    THEN TrimRight(SubSeq(s, 1, Len(s) - 1))
    ELSE s

trim(s) == TrimRight(TrimLeft(s))

\* the number of consecutive characters of class C from position i on
RECURSIVE RunLen(_, _, _)
RunLen(s, i, C) ==
  IF i >= 1 /\ i <= Len(s) /\ s[i] \in C THEN 1 + RunLen(s, i + 1, C) ELSE 0

(* ---------------------------- extractCode ------------------------------ *)
\* \b at the gap before position i (1 .. Len(s)+1)
WordBoundary(s, i) ==
  LET before == i > 1 /\ s[i - 1] \in WordChar
      after == i <= Len(s) /\ s[i] \in WordChar
  IN  before # after

\* the pattern without its closing \b, \b(\d{5,6})
CodeNoTrailingBoundaryAt(s, i) ==
  IF ~WordBoundary(s, i) THEN 0
  ELSE LET run == RunLen(s, i, Digit)
       IN  IF run >= 6 THEN 6
           ELSE IF run >= 5 THEN 5
           ELSE 0

\* \b(\d{5,6})\b tried at start position i: the length matched, 0 if none.
\* The quantifier is greedy: six digits first, then five.
CodeRegexAt(s, i) ==
  IF ~WordBoundary(s, i) THEN 0
  ELSE LET run == RunLen(s, i, Digit)
       IN  IF run >= 6 /\ WordBoundary(s, i + 6) THEN 6
           ELSE IF run >= 5 /\ WordBoundary(s, i + 5) THEN 5
           ELSE 0

\* CODE_REGEX.exec(text): the leftmost start position that matches
RECURSIVE CodeExecFrom(_, _)
CodeExecFrom(s, i) ==
  IF i > Len(s) THEN Null
  ELSE IF CodeRegexAt(s, i) > 0 THEN SubSeq(s, i, i + CodeRegexAt(s, i) - 1)
  ELSE CodeExecFrom(s, i + 1)

extractCode(text) == CodeExecFrom(text, 1)

(* ------------------------- extractEmailAddress ------------------------- *)
\* [A-Z0-9.-]+\.[A-Z]{2,} from position d with the first group holding k
\* characters; the group is greedy and backs off one character at a time.
\* The last position matched, 0 if none.
RECURSIVE DomainEnd(_, _, _)
DomainEnd(s, d, k) ==
  IF k < 1 THEN 0
  ELSE IF d + k <= Len(s) /\ s[d + k] = "." /\ RunLen(s, d + k + 1, Letter) >= 2
    THEN d + k + RunLen(s, d + k + 1, Letter)
  ELSE DomainEnd(s, d, k - 1)

\* the address pattern tried at start position i: the last position matched,
\* 0 if none.  "@" is in neither class, so the local part is the whole run.
EmailRegexAt(s, i) ==
  LET local == RunLen(s, i, LocalClass)
      at == i + local
  IN  IF local >= 1 /\ at <= Len(s) /\ s[at] = "@"
        THEN DomainEnd(s, at + 1, RunLen(s, at + 1, DomainClass))
        ELSE 0

RECURSIVE EmailMatchFrom(_, _)
EmailMatchFrom(s, i) ==
  IF i > Len(s) THEN Null
  ELSE IF EmailRegexAt(s, i) > 0 THEN SubSeq(s, i, EmailRegexAt(s, i))
  ELSE EmailMatchFrom(s, i + 1)

\* the match returned as it stands, without toLowerCase()
extractEmailAddressKeepCase(value) ==
  IF value = Null \/ value = <<>> THEN Null
  ELSE EmailMatchFrom(value, 1)

extractEmailAddress(value) ==
  IF value = Null \/ value = <<>> THEN Null
  ELSE LET match == EmailMatchFrom(value, 1)
       IN  IF match # Null THEN toLowerCase(match) ELSE Null

(* ---------------------------- getRecipients ---------------------------- *)
\* message.to is [isArray |-> BOOLEAN, value |-> the string or Null it is when
\* it is no array, list |-> its entries (strings and Nulls) when it is one]
RECURSIVE RecipientsLoop(_, _)
RecipientsLoop(list, recipients) ==
  IF list = <<>> THEN recipients
  ELSE LET entry == Head(list)
           email == extractEmailAddress(IF entry = Null THEN <<>> ELSE entry)
       IN  RecipientsLoop(Tail(list),
             IF email # Null /\ email \notin SeqRange(recipients)
               THEN Append(recipients, email)
               ELSE recipients)

getRecipients(message) ==
  RecipientsLoop(
    IF message.to.isArray THEN message.to.list ELSE <<message.to.value>>, <<>>)

(* ----------------------------- readRawText ----------------------------- *)
\* message.raw is Null or the text of the stream; readFails is whether
\* reading the stream throws
readRawText(message, readFails) ==
  IF message.raw = Null THEN <<>>
  ELSE IF readFails THEN <<>>
  ELSE message.raw

(* ----------------------------- getAccessKey ---------------------------- *)
BearerPrefix == <<"b","e","a","r","e","r"," ">>

\* authorization is request.headers.get("authorization"): a string or Null
getAccessKey(authorization) ==
  LET auth == IF authorization = Null THEN <<>> ELSE authorization
  IN  IF startsWith(toLowerCase(auth), BearerPrefix)
        THEN trim(SliceFrom(auth, 8))
        ELSE <<>>

(* -------------------------- normalizeTtlSeconds ------------------------ *)
DEFAULT_TTL_SECONDS == 600

DigitValue(c) == IndexIn(DigitSeq, c) - 1

RECURSIVE DecimalValue(_)
DecimalValue(digits) ==
  IF digits = <<>> THEN 0
  ELSE 10 * DecimalValue(SubSeq(digits, 1, Len(digits) - 1))
         + DigitValue(digits[Len(digits)])

\* Number.parseInt(s, 10): leading white space skipped, an optional sign,
\* then the longest run of digits; NaN when there is no digit
parseInt(s) ==
  LET t == TrimLeft(s)
      signed == t # <<>> /\ Head(t) \in {"+", "-"}
      body == IF signed THEN Tail(t) ELSE t
      run == RunLen(body, 1, Digit)
      magnitude == DecimalValue(SubSeq(body, 1, run))
  IN  IF run = 0 THEN [nan |-> TRUE, val |-> 0]
      ELSE [nan |-> FALSE,
            val |-> IF signed /\ Head(t) = "-" THEN 0 - magnitude ELSE magnitude]

\* the test parsed >= 0 in place of parsed > 0
normalizeTtlSecondsAcceptZero(value) ==
  LET parsed == parseInt(IF value = Null THEN <<>> ELSE value)
  IN  IF ~parsed.nan /\ parsed.val >= 0 THEN parsed.val ELSE DEFAULT_TTL_SECONDS

normalizeTtlSeconds(value) ==
  LET parsed == parseInt(IF value = Null THEN <<>> ELSE value)
  IN  IF ~parsed.nan /\ parsed.val > 0 THEN parsed.val ELSE DEFAULT_TTL_SECONDS

(* ------------------------------- buildKey ------------------------------ *)
KeyPrefix == <<"c","o","d","e",":">>

buildKey(email) == KeyPrefix \o email

(* -------------------------- decodeURIComponent ------------------------- *)
HexSeq == <<"0","1","2","3","4","5","6","7","8","9","a","b","c","d","e","f">>
HexDigit == SeqRange(HexSeq) \cup {"A","B","C","D","E","F"}

HexValue(c) == IndexIn(HexSeq, ToLowerChar(c)) - 1

\* the character of code 96, which a string literal cannot hold
GraveAccent == "<grave>"

\* the characters of code 32 .. 126
Printable ==
  <<" ","!","\"","#","$","%","&","'","(",")","*","+",",","-",".","/",
    "0","1","2","3","4","5","6","7","8","9",":",";","<","=",">","?",
    "@","A","B","C","D","E","F","G","H","I","J","K","L","M","N","O",
    "P","Q","R","S","T","U","V","W","X","Y","Z","[","\\","]","^","_",
    GraveAccent,"a","b","c","d","e","f","g","h","i","j","k","l","m","n","o",
    "p","q","r","s","t","u","v","w","x","y","z","{","|","}","~">>

\* a control character and a character beyond ASCII: in no class of the
\* patterns, so one token stands for each
ControlChar == "<control>"
NonAsciiChar == "<non-ascii>"

FromCharCode(code) ==
  IF code >= 32 /\ code <= 126 THEN Printable[code - 31] ELSE ControlChar

\* an escape %XX at position i
IsEscapeAt(s, i) ==
  i + 2 <= Len(s) /\ s[i] = "%" /\ s[i + 1] \in HexDigit /\ s[i + 2] \in HexDigit

ByteAt(s, i) == 16 * HexValue(s[i + 1]) + HexValue(s[i + 2])

\* the octets a UTF-8 lead byte announces, 0 for a byte that leads nothing
Utf8Length(byte) ==
  IF byte < 128 THEN 1
  ELSE IF byte >= 194 /\ byte <= 223 THEN 2
  ELSE IF byte >= 224 /\ byte <= 239 THEN 3
  ELSE IF byte >= 240 /\ byte <= 244 THEN 4
  ELSE 0

\* the range of the octet after lead byte `lead`: narrower after E0, ED, F0
\* and F4, which shuts out overlong forms, surrogates and code points past
\* U+10FFFF
SecondByteOk(lead, second) ==
  /\ second >= (IF lead = 224 THEN 160 ELSE IF lead = 240 THEN 144 ELSE 128)
  /\ second <= (IF lead = 237 THEN 159 ELSE IF lead = 244 THEN 143 ELSE 191)

\* n escapes of continuation octets follow the escape at position i
ContinuationsAt(s, i, n) ==
  /\ \A j \in 1..n :
       IsEscapeAt(s, i + 3 * j) /\ ByteAt(s, i + 3 * j) >= 128
                                /\ ByteAt(s, i + 3 * j) <= 191
  /\ n >= 1 => SecondByteOk(ByteAt(s, i), ByteAt(s, i + 3))

\* [threw |-> BOOLEAN, str |-> the decoded string]: URIError on a "%" that
\* starts no escape and on octets that are not UTF-8
RECURSIVE DecodeFrom(_, _, _)
DecodeFrom(s, i, acc) ==
  IF i > Len(s) THEN [threw |-> FALSE, str |-> acc]
  ELSE IF s[i] # "%" THEN DecodeFrom(s, i + 1, Append(acc, s[i]))
  ELSE IF ~IsEscapeAt(s, i) THEN [threw |-> TRUE, str |-> <<>>]
  ELSE LET n == Utf8Length(ByteAt(s, i))
       IN  IF n = 1 THEN DecodeFrom(s, i + 3, Append(acc, FromCharCode(ByteAt(s, i))))
           ELSE IF n >= 2 /\ ContinuationsAt(s, i, n - 1)
             THEN DecodeFrom(s, i + 3 * n, Append(acc, NonAsciiChar))
           ELSE [threw |-> TRUE, str |-> <<>>]

decodeURIComponent(s) == DecodeFrom(s, 1, <<>>)

\* url.pathname.replace(/^\/+/, "")
RECURSIVE StripLeadingSlashes(_)
StripLeadingSlashes(s) ==
  IF s # <<>> /\ Head(s) = "/" THEN StripLeadingSlashes(Tail(s)) ELSE s

(* ------------------------------- state --------------------------------- *)
VARIABLES
  \* the bindings: ACCESS_KEY and CODE_TTL_SECONDS, each a string or Null
  env,
  \* ANYMAIL_CODES: the records [key, value, expiresAt] written and not overwritten
  store,
  \* the store's clock, in seconds
  now,
  \* per inbound message with writes still outstanding: its put() promises and
  \* the Promise.all handed to ctx.waitUntil
  inflight,
  \* inbound messages handled so far
  emails,
  \* clock advances so far
  advances,
  \* the last operation, its inputs and what it produced
  last

vars == <<env, store, now, inflight, emails, advances, last>>

(* -------------------------------- store --------------------------------- *)
\* ANYMAIL_CODES.get(key) when the read succeeds: the value of the unexpired
\* record under key, or Null
KVGet(key) ==
  IF \E rec \in store : rec.key = key /\ now < rec.expiresAt
    THEN (CHOOSE rec \in store : rec.key = key /\ now < rec.expiresAt).value
    ELSE Null

\* ANYMAIL_CODES.put(key, value, {expirationTtl}) taking effect
KVPut(key, value, expirationTtl) ==
  {rec \in store : rec.key # key}
    \cup {[key |-> key, value |-> value, expiresAt |-> now + expirationTtl]}

(* ---------------------------- inbound handler --------------------------- *)
\* `${subject}${rawText}`
CodeTextNoNewline(subject, rawText) == subject \o rawText

\* `${subject}\n${rawText}`
CodeText(subject, rawText) == subject \o <<"\n">> \o rawText

\* the put() calls of email(message, env, ctx), in order: none after an early
\* return
EmailTasks(message, readFails) ==
  LET recipients == getRecipients(message)
      subject == IF message.subject = Null THEN <<>> ELSE message.subject
      rawText == readRawText(message, readFails)
      code == extractCode(CodeText(subject, rawText))
      ttlSeconds == normalizeTtlSeconds(env.CODE_TTL_SECONDS)
  IN  IF Len(recipients) = 0 THEN <<>>
      ELSE IF code = Null THEN <<>>
      ELSE [i \in 1..Len(recipients) |->
             [key |-> buildKey(recipients[i]), value |-> code,
              expirationTtl |-> ttlSeconds, state |-> "pending"]]

Email(message, readFails) ==
  /\ emails < MaxMessages
  /\ readFails => message.raw # Null
  /\ LET tasks == EmailTasks(message, readFails)
     IN  /\ inflight' = IF tasks = <<>> THEN inflight
                        ELSE Append(inflight, [tasks |-> tasks, tracked |-> "pending"])
         /\ last' = [op |-> "email", message |-> message,
                     readFails |-> readFails, puts |-> tasks]
  /\ emails' = emails + 1
  /\ UNCHANGED <<env, store, now, advances>>

\* Promise.all(tasks) after one of the tasks settled: it rejects with the
\* first rejection and fulfils once every task is fulfilled
PromiseAll(tasks, tracked) ==
  IF tracked # "pending" THEN tracked
  ELSE IF \E i \in 1..Len(tasks) : tasks[i].state = "rejected" THEN "rejected"
  ELSE IF \A i \in 1..Len(tasks) : tasks[i].state = "fulfilled" THEN "fulfilled"
  ELSE "pending"

RemoveAt(q, g) == SubSeq(q, 1, g - 1) \o SubSeq(q, g + 1, Len(q))

\* one outstanding put() settles: it takes effect and fulfils, or rejects
PutSettle(g, t, ok) ==
  /\ g \in 1..Len(inflight)
  /\ t \in 1..Len(inflight[g].tasks)
  /\ inflight[g].tasks[t].state = "pending"
  /\ LET task == inflight[g].tasks[t]
         tasks == [inflight[g].tasks EXCEPT
                     ![t].state = IF ok THEN "fulfilled" ELSE "rejected"]
         tracked == PromiseAll(tasks, inflight[g].tracked)
         outstanding == Cardinality({i \in 1..Len(tasks) : tasks[i].state = "pending"})
     IN  /\ store' = IF ok THEN KVPut(task.key, task.value, task.expirationTtl)
                     ELSE store
         /\ inflight' = IF outstanding = 0 THEN RemoveAt(inflight, g)
                        ELSE [inflight EXCEPT ![g] = [tasks |-> tasks, tracked |-> tracked]]
         /\ last' = [op |-> "put", ok |-> ok, key |-> task.key, value |-> task.value,
                     expirationTtl |-> task.expirationTtl,
                     tracked |-> tracked, was |-> inflight[g].tracked,
                     outstanding |-> outstanding]
  /\ UNCHANGED <<env, now, emails, advances>>

(* ----------------------------- lookup handler --------------------------- *)
\* json(data, status)
json(kind, error, code, status) ==
  [outcome |-> "response", status |-> status, kind |-> kind,
   error |-> error, code |-> code]

Throws(what) ==
  [outcome |-> "exception", status |-> 0, kind |-> what, error |-> what, code |-> <<>>]

\* the default case of the route switch
Lookup(path, readOk) ==
  LET decoded == decodeURIComponent(path)
      email == extractEmailAddress(decoded.str)
  IN  IF decoded.threw THEN Throws("URIError")
      ELSE IF email = Null THEN json("error", "invalid email", <<>>, 400)
      ELSE IF ~readOk THEN Throws("store read failed")
      ELSE LET code == KVGet(buildKey(email))
           IN  IF code = Null \/ code = <<>> THEN json("code", "", <<>>, 404)
               ELSE json("code", "", code, 200)

\* the comparison alone, without the !env.ACCESS_KEY test
AuthorizedNoKeyCheck(request) == getAccessKey(request.authorization) = env.ACCESS_KEY

\* env.ACCESS_KEY is a string or Null; !env.ACCESS_KEY holds of Null and ""
Authorized(request) ==
  /\ ~(env.ACCESS_KEY = Null \/ env.ACCESS_KEY = <<>>)
  /\ getAccessKey(request.authorization) = env.ACCESS_KEY

\* fetch(request, env) with the method check after the authorization check
FetchResultAuthFirst(request, readOk) ==
  IF ~Authorized(request) THEN json("error", "unauthorized", <<>>, 401)
  ELSE IF request.method # "GET" THEN json("error", "method not allowed", <<>>, 405)
  ELSE LET path == StripLeadingSlashes(request.pathname)
       IN  IF path = <<>> THEN json("domains", "", <<>>, 200)
           ELSE Lookup(path, readOk)

\* fetch(request, env); readOk is whether the store read, if reached,
\* succeeds.  The body of the domain list is left out: kind "domains".
FetchResult(request, readOk) ==
  IF request.method # "GET" THEN json("error", "method not allowed", <<>>, 405)
  ELSE IF ~Authorized(request) THEN json("error", "unauthorized", <<>>, 401)
  ELSE LET path == StripLeadingSlashes(request.pathname)
       IN  IF path = <<>> THEN json("domains", "", <<>>, 200)
           ELSE Lookup(path, readOk)

Fetch(request, readOk) ==
  /\ last' = [op |-> "fetch", request |-> request, readOk |-> readOk,
              result |-> FetchResult(request, readOk)]
  /\ UNCHANGED <<env, store, now, inflight, emails, advances>>

(* -------------------------------- clock --------------------------------- *)
\* time passes at the store
Advance(d) ==
  /\ advances < MaxAdvances
  /\ advances' = advances + 1
  /\ now' = now + d
  /\ last' = [op |-> "advance", by |-> d]
  /\ UNCHANGED <<env, store, inflight, emails>>

(* -------------------------------- inputs -------------------------------- *)
\* "x@y.co", the same in upper case, in angle brackets, and other addresses
AddrX == <<"x","@","y",".","c","o">>
AddrXUpper == <<"X","@","Y",".","C","O">>
AddrXNamed == <<"B","o"," ","<","x","@","y",".","c","o",">">>
AddrB == <<"b","@","y",".","c","o">>
\* "a%41@y.co": "%" is a character of the local part
AddrPct == <<"a","%","4","1","@","y",".","c","o">>
NoAddr == <<"x","y">>

To(value) == [isArray |-> FALSE, value |-> value, list |-> <<>>]
ToList(list) == [isArray |-> TRUE, value |-> Null, list |-> list]

Tos ==
  { To(AddrXUpper), To(AddrXNamed), To(NoAddr), To(Null), To(<<>>), ToList(<<>>),
    ToList(<<AddrX, AddrXUpper, AddrB>>), ToList(<<Null, AddrB>>) }

\* [subject, raw]: the subject header and the body stream, each a string or Null
Contents ==
  { [subject |-> <<"C","o","d","e">>,
     raw |-> <<"U","s","e"," ","7","3","9","2","0","1"," ","t","o">>],
    [subject |-> <<"1","2","3">>, raw |-> <<"4","5">>],
    [subject |-> <<"5","5","5","5","5">>, raw |-> <<"7","3","9","2","0">>],
    [subject |-> Null, raw |-> Null] }

Message(to, content) == [to |-> to, subject |-> content.subject, raw |-> content.raw]

AllMessages == {Message(to, c) : to \in Tos, c \in Contents}

Code73920 == [subject |-> Null, raw |-> <<"7","3","9","2","0">>]
Code482913 == [subject |-> <<"4","8","2","9","1","3">>, raw |-> Null]

\* the messages of the specifications that are about lookups
FewMessages ==
  { Message(To(AddrXUpper), Code73920),
    Message(ToList(<<AddrX, AddrB>>), Code482913),
    Message(To(AddrPct), Code482913), Message(To(NoAddr), Code73920) }

\* Authorization headers as Headers.get returns them (no white space at the
\* ends), each with the credential it carries: Null when it is no Bearer
\* header
Header(value, token) == [value |-> value, token |-> token]

Bearer(rest) == <<"B","e","a","r","e","r">> \o rest

AuthHeaders ==
  { Header(Null, Null),
    Header(<<"k">>, Null),
    Header(<<"B","a","s","i","c"," ","k">>, Null),
    Header(Bearer(<<>>), Null),
    Header(Bearer(<<"k">>), Null),
    Header(Bearer(<<" ","k">>), <<"k">>),
    Header(<<"b","e","a","r","e","r"," ","k">>, <<"k">>),
    Header(<<"B","E","A","R","E","R"," ","k">>, <<"k">>),
    Header(Bearer(<<" "," ","k">>), <<"k">>),
    Header(Bearer(<<" ","K">>), <<"K">>),
    Header(Bearer(<<" ","j">>), <<"j">>),
    Header(Bearer(<<" ","k"," ","j">>), <<"k"," ","j">>),
    Header(Bearer(<<" ","k","k">>), <<"k","k">>) }

GoodHeader == Header(Bearer(<<" ","k">>), <<"k">>)

Request(method, header, pathname) ==
  [method |-> method, authorization |-> header.value, token |-> header.token,
   pathname |-> pathname]

\* url.pathname of the lookups: [pathname, address], address being the string
\* the path is written for (Null: none)
Path(pathname, address) == [pathname |-> pathname, address |-> address]

LookupPaths ==
  { Path(<<"/">> \o AddrX, AddrX),
    Path(<<"/","/">> \o AddrX, AddrX),
    Path(<<"/","x","%","4","0","y",".","c","o">>, AddrX),
    Path(<<"/","%","7","8","@","y","%","2","E","c","o">>, AddrX),
    Path(<<"/">> \o AddrB, AddrB),
    Path(<<"/">> \o AddrPct, AddrPct),
    Path(<<"/","a","%","2","5","4","1","@","y",".","c","o">>, AddrPct) }

OtherPaths ==
  { Path(<<"/">>, Null),
    Path(<<"/">> \o NoAddr, Null),
    Path(<<"/","%">>, Null),
    Path(<<"/","x","%","z","z","@","y",".","c","o">>, Null),
    Path(<<"/","%","C","3","%","A","9">>, Null),
    Path(<<"/","%","f","f">>, Null) }

(* ---------------------------- specifications ---------------------------- *)
InitWith(keys, ttls) ==
  /\ env \in [ACCESS_KEY : keys, CODE_TTL_SECONDS : ttls]
  /\ store = {}
  /\ now = 0
  /\ inflight = <<>>
  /\ emails = 0
  /\ advances = 0
  /\ last = [op |-> "init"]

Settle ==
  \E g \in 1..Len(inflight) :
    \E t \in 1..Len(inflight[g].tasks), ok \in BOOLEAN : PutSettle(g, t, ok)

\* the worker with an access key and the default TTL, a few messages, the
\* lookups of their addresses, and the clock passing the TTL
Init == InitWith({<<"k">>}, {Null})

Next ==
  \/ \E m \in FewMessages, readFails \in BOOLEAN : Email(m, readFails)
  \/ Settle
  \/ \E p \in LookupPaths \cup OtherPaths, h \in {GoodHeader}, readOk \in BOOLEAN :
       Fetch(Request("GET", h, p.pathname), readOk)
  \/ \E d \in {1, DEFAULT_TTL_SECONDS - 1} : Advance(d)

Spec == Init /\ [][Next]_vars

\* ---- the inbound handler over every message shape, with the lookups of the
\* ---- addresses written
InitInbound == InitWith({<<"k">>}, {Null, <<"1","2","0">>})

NextInbound ==
  \/ \E m \in AllMessages, readFails \in BOOLEAN : Email(m, readFails)
  \/ Settle
  \/ \E p \in {<<"/">> \o AddrX, <<"/">> \o AddrB}, readOk \in BOOLEAN :
       Fetch(Request("GET", GoodHeader, p), readOk)

SpecInbound == InitInbound /\ [][NextInbound]_vars

\* ---- the configured TTL: [value |-> CODE_TTL_SECONDS, reads |-> the integer
\* ---- the string stands for, 0 when it stands for none]
Ttl(value, reads) == [value |-> value, reads |-> reads]

TtlInputs ==
  { Ttl(Null, 0), Ttl(<<>>, 0), Ttl(<<"a","b","c">>, 0), Ttl(<<"t","e","n">>, 0),
    Ttl(<<"0">>, 0), Ttl(<<"-","5">>, -5), Ttl(<<"-","0">>, 0),
    Ttl(<<"1">>, 1), Ttl(<<"5","9">>, 59), Ttl(<<"1","2","0">>, 120),
    Ttl(<<"6","0","0">>, 600), Ttl(<<"8","6","4","0","0">>, 86400),
    Ttl(<<"0","0","7">>, 7), Ttl(<<"+","3">>, 3), Ttl(<<" ","4","5">>, 45),
    Ttl(<<"1","2","a","b","c">>, 12) }

InitTtl == InitWith({<<"k">>}, {t.value : t \in TtlInputs})

TtlMessages ==
  { Message(ToList(<<AddrX, AddrB>>), Code73920), Message(To(AddrX), Code482913) }

NextTtl ==
  \/ \E m \in TtlMessages, readFails \in BOOLEAN : Email(m, readFails)
  \/ Settle

SpecTtl == InitTtl /\ [][NextTtl]_vars

\* ---- the lookup handler over methods, Authorization headers and access keys
Methods == {"GET", "POST", "DELETE"}

AuthPaths == { <<"/">>, <<"/">> \o AddrX, <<"/">> \o NoAddr }

AuthMessages == { Message(To(AddrX), Code482913) }

InitAuth == InitWith({Null, <<>>, <<"k">>}, {Null})

NextAuth ==
  \/ \E m \in AuthMessages : Email(m, FALSE)
  \/ Settle
  \/ \E method \in Methods, h \in AuthHeaders, p \in AuthPaths, readOk \in BOOLEAN :
       Fetch(Request(method, h, p), readOk)

SpecAuth == InitAuth /\ [][NextAuth]_vars

\* ---- extractCode over every text of at most MaxTextLen characters of a
\* ---- digit, a letter and a separator, and over the texts of the examples
CodeAlphabet == {"1", "a", " "}

RECURSIVE TextsOfLen(_)
TextsOfLen(n) ==
  IF n = 0 THEN {<<>>}
  ELSE {Append(t, c) : t \in TextsOfLen(n - 1), c \in CodeAlphabet}

\* "is 482913, soon", "#12345678 ok", "7392_12345", "0123-45678x 90210"
ExampleTexts ==
  { <<"i","s"," ","4","8","2","9","1","3",","," ","s","o","o","n">>,
    <<"#","1","2","3","4","5","6","7","8"," ","o","k">>,
    <<"7","3","9","2","_","1","2","3","4","5">>,
    <<"0","1","2","3","-","4","5","6","7","8","x"," ","9","0","2","1","0">> }

Texts == UNION {TextsOfLen(n) : n \in 0..MaxTextLen} \cup ExampleTexts

InitCode ==
  /\ env = [ACCESS_KEY |-> <<"k">>, CODE_TTL_SECONDS |-> Null]
  /\ store = {}
  /\ now = 0
  /\ inflight = <<>>
  /\ emails = 0
  /\ advances = 0
  /\ \E t \in Texts : last = [op |-> "text", text |-> t]

ExtractCode ==
  /\ last.op = "text"
  /\ last' = [op |-> "extractCode", text |-> last.text, result |-> extractCode(last.text)]
  /\ UNCHANGED <<env, store, now, inflight, emails, advances>>

NextCode == ExtractCode

SpecCode == InitCode /\ [][NextCode]_vars

(* ================================ claims ================================ *)
AllIn(s, from, to, C) == \A j \in from..to : s[j] \in C

(* ---- C6 ---- *)
\* positions i .. i+k-1 of s hold k digits with no word character next to
\* them on either side
IsBoundedDigits(s, i, k) ==
  /\ i >= 1 /\ i + k - 1 <= Len(s)
  /\ AllIn(s, i, i + k - 1, Digit)
  /\ (i = 1 \/ s[i - 1] \notin WordChar)
  /\ (i + k - 1 = Len(s) \/ s[i + k] \notin WordChar)

\* positions a .. b of s are a maximal run of digits
IsDigitRun(s, a, b) ==
  /\ 1 <= a /\ a <= b /\ b <= Len(s)
  /\ AllIn(s, a, b, Digit)
  /\ (a = 1 \/ s[a - 1] \notin Digit)
  /\ (b = Len(s) \/ s[b + 1] \notin Digit)

DigitRuns(s) == {r \in (1..Len(s)) \X (1..Len(s)) : IsDigitRun(s, r[1], r[2])}

CodeTokens(s) == {c \in (1..Len(s)) \X {5, 6} : IsBoundedDigits(s, c[1], c[2])}

\* C6: extractCode returns, verbatim, the leftmost run of exactly 5 or 6
\* digits that has no word character on either side, and Null when the text
\* has none; a text whose digit runs all have 4 or fewer or 7 or more digits
\* yields Null, and a text with a run of exactly 5 or 6 digits between
\* non-word characters or the ends of the text yields a code.
C6_ExtractCodeLeftmostBounded ==
  last.op = "extractCode" =>
    LET s == last.text
        tokens == CodeTokens(s)
    IN  /\ IF tokens = {} THEN last.result = Null
           ELSE \E c \in tokens :
                  /\ \A other \in tokens : c[1] <= other[1]
                  /\ last.result = SubSeq(s, c[1], c[1] + c[2] - 1)
        /\ (\A r \in DigitRuns(s) : r[2] - r[1] + 1 \notin {5, 6}) => last.result = Null
        /\ (\E r \in DigitRuns(s) :
              /\ r[2] - r[1] + 1 \in {5, 6}
              /\ (r[1] = 1 \/ s[r[1] - 1] \notin WordChar)
              /\ (r[2] = Len(s) \/ s[r[2] + 1] \notin WordChar))
             => last.result # Null

\* the six-digit code of "is 482913, soon", returned verbatim
C6_Witness ==
  /\ last.op = "extractCode"
  /\ Len(last.text) = 15
  /\ last.result = <<"4","8","2","9","1","3">>

(* ---- C3 ---- *)
\* the distinct normalized recipients of a message
NormalizedRecipients(message) ==
  LET entries == IF message.to.isArray THEN SeqRange(message.to.list)
                 ELSE {message.to.value}
  IN  {extractEmailAddress(e) : e \in entries} \ {Null}

\* the code of a message: extracted from subject, newline, body
MessageCode(message, readFails) ==
  LET subject == IF message.subject = Null THEN <<>> ELSE message.subject
      body == IF message.raw = Null \/ readFails THEN <<>> ELSE message.raw
  IN  extractCode(subject \o <<"\n">> \o body)

IssuedFor(message, readFails, puts) ==
  LET recipients == NormalizedRecipients(message)
      code == MessageCode(message, readFails)
  IN  IF recipients = {} \/ code = Null THEN puts = <<>>
      ELSE /\ Len(puts) = Cardinality(recipients)
           /\ \A r \in recipients :
                Cardinality({i \in 1..Len(puts) : puts[i].key = buildKey(r)}) = 1
           /\ \A i \in 1..Len(puts) :
                /\ puts[i].value = code
                /\ puts[i].expirationTtl = normalizeTtlSeconds(env.CODE_TTL_SECONDS)
                /\ puts[i].state = "pending"

\* C3: handling one inbound message issues exactly one store write
\* (buildKey(r), code, ttl) per distinct normalized recipient r, with the code
\* extracted from subject + "\n" + body and the effective TTL; with no valid
\* recipient or no code it issues none; and the step itself changes no record.
C3_OneWritePerRecipient ==
  [][emails' = emails + 1 =>
       /\ store' = store
       /\ last'.op = "email"
       /\ IssuedFor(last'.message, last'.readFails, last'.puts)
       /\ inflight' = IF last'.puts = <<>> THEN inflight
                      ELSE Append(inflight, [tasks |-> last'.puts, tracked |-> "pending"])]_vars

\* a message to three entries, two of them equal after lower-casing, handled
\* with a record already in the store: two writes
C3_Witness ==
  /\ last.op = "email"
  /\ last.message.to.isArray
  /\ Len(last.message.to.list) = 3
  /\ Len(last.puts) = 2
  /\ store # {}

(* ---- C7 ---- *)
TtlsPassed ==
  UNION {{inflight[g].tasks[t].expirationTtl : t \in 1..Len(inflight[g].tasks)} :
           g \in 1..Len(inflight)} \cup
  (IF last.op = "email" THEN {last.puts[i].expirationTtl : i \in 1..Len(last.puts)}
   ELSE IF last.op = "put" THEN {last.expirationTtl}
   ELSE {})

\* C7: when CODE_TTL_SECONDS reads (as Number.parseInt reads it) as a
\* positive integer, every store write is passed that integer as its TTL;
\* when it is non-numeric, zero, negative or absent, every store write is
\* passed 600.
C7_EffectiveTtl ==
  \A t \in TtlInputs :
    env.CODE_TTL_SECONDS = t.value =>
      \A ttl \in TtlsPassed : ttl = IF t.reads > 0 THEN t.reads ELSE 600

\* two writes issued with the configured TTL "120"
C7_Witness ==
  /\ env.CODE_TTL_SECONDS = <<"1","2","0">>
  /\ last.op = "email"
  /\ Len(last.puts) = 2
  /\ last.puts[2].expirationTtl = 120

(* ---- C1 ---- *)
KeyMissing == env.ACCESS_KEY = Null \/ env.ACCESS_KEY = <<>>

AuthorizationRule(request, result) ==
  /\ (request.token = Null \/ request.token # env.ACCESS_KEY) => result.status = 401
  /\ result.status # 401 => request.token # Null /\ request.token = env.ACCESS_KEY
  /\ KeyMissing => result.status = 401

\* C1 as stated: the authorization rule for every request to the fetch handler
C1_Original ==
  last.op = "fetch" => AuthorizationRule(last.request, last.result)

\* C1, amended: for every GET request, no Authorization header, a header that
\* is no Bearer header, or a Bearer token other than the configured access
\* key yields 401; only a Bearer token equal to the access key yields
\* anything but 401; and with the access key empty or absent every GET
\* request yields 401.
C1_AuthorizationOfGet ==
  (last.op = "fetch" /\ last.request.method = "GET") =>
    AuthorizationRule(last.request, last.result)

\* a GET with the scheme in upper case and the right token is answered 200
\* with the stored code
C1_Witness ==
  /\ last.op = "fetch"
  /\ last.request.method = "GET"
  /\ last.request.authorization = <<"B","E","A","R","E","R"," ","k">>
  /\ env.ACCESS_KEY = <<"k">>
  /\ last.result.status = 200
  /\ last.result.code # <<>>

(* ---- C5 ---- *)
\* C5: every request whose method is not GET is answered 405 "method not
\* allowed", whatever its Authorization header, its path and the access
\* key: the method is checked before the authorization.
C5_MethodNotAllowed ==
  (last.op = "fetch" /\ last.request.method # "GET") =>
    /\ last.result.outcome = "response"
    /\ last.result.status = 405
    /\ last.result.error = "method not allowed"

\* a POST without Authorization header, with no access key configured
C5_Witness ==
  /\ last.op = "fetch"
  /\ last.request.method = "POST"
  /\ last.request.authorization = Null
  /\ KeyMissing
  /\ last.result.status = 405

(* ---- C10 ---- *)
\* a is a lower-cased string that the address pattern matches as a whole:
\* local part, "@", domain, ".", two or more letters
IsNormalizedAddress(a) ==
  \E at \in 2..Len(a) :
    \E dot \in (at + 2)..(Len(a) - 2) :
      /\ a[at] = "@"
      /\ AllIn(a, 1, at - 1, LocalClass \ Upper)
      /\ AllIn(a, at + 1, dot - 1, DomainClass \ Upper)
      /\ a[dot] = "."
      /\ AllIn(a, dot + 1, Len(a), Lower)

IsCodeKey(key) ==
  /\ Len(key) > 5
  /\ SubSeq(key, 1, 5) = <<"c","o","d","e",":">>
  /\ IsNormalizedAddress(SubSeq(key, 6, Len(key)))

IsCodeValue(value) ==
  /\ Len(value) \in {5, 6}
  /\ AllIn(value, 1, Len(value), Digit)

WritesWellFormed ==
  /\ \A rec \in store : IsCodeKey(rec.key) /\ IsCodeValue(rec.value)
  /\ \A g \in 1..Len(inflight) : \A t \in 1..Len(inflight[g].tasks) :
       IsCodeKey(inflight[g].tasks[t].key) /\ IsCodeValue(inflight[g].tasks[t].value)

\* a lookup that read the store successfully answers 404 only when the store
\* holds no unexpired record under the key it read
NoPresentRecordTurned404 ==
  (last.op = "fetch" /\ last.result.status = 404) =>
    LET decoded == decodeURIComponent(StripLeadingSlashes(last.request.pathname))
        key == buildKey(extractEmailAddress(decoded.str))
    IN  \A rec \in store : rec.key = key => now >= rec.expiresAt

\* C10: every record written, and every write outstanding, has a key "code:"
\* followed by a lower-cased address that the address pattern matches and a
\* value of exactly 5 or 6 digits (so never an empty one); a lookup changes
\* neither the store nor the outstanding writes; and no lookup answers 404
\* while an unexpired record is under its key.
C10_WritesWellFormed ==
  /\ [](WritesWellFormed /\ NoPresentRecordTurned404)
  /\ [][last'.op = "fetch" => (store' = store /\ inflight' = inflight)]_vars

\* two records in the store and a lookup answered 200
C10_Witness ==
  /\ Cardinality(store) = 2
  /\ last.op = "fetch"
  /\ last.result.status = 200

(* ---- C2 ---- *)
IsAuthorizedGet(request) ==
  /\ request.method = "GET"
  /\ request.token # Null
  /\ request.token = env.ACCESS_KEY
  /\ ~KeyMissing

\* C2 as stated: an authorized GET for an address a, given as the plain path
\* or as an encoded variant of it, is answered 200 with the code of the
\* latest write for a while that record is unexpired, and 404 with an empty
\* code once it has expired or when none was written.
C2_RoundTrip ==
  \A p \in LookupPaths :
    (last.op = "fetch" /\ IsAuthorizedGet(last.request)
       /\ last.request.pathname = p.pathname) =>
      LET live == {rec \in store : rec.key = buildKey(p.address) /\ now < rec.expiresAt}
      IN  /\ last.result.outcome = "response"
          /\ IF live # {}
               THEN /\ last.result.status = 200
                    /\ \A rec \in live : last.result.code = rec.value
               ELSE /\ last.result.status = 404
                    /\ last.result.code = <<>>

(* ---- C4 ---- *)
\* C4 as stated: an authorized GET with a non-empty path token ends in 400
\* "invalid email", in 200 with a code or in 404 with an empty code, and in
\* nothing else: no other status, no exception.
C4_ThreeOutcomes ==
  (last.op = "fetch" /\ IsAuthorizedGet(last.request)
     /\ StripLeadingSlashes(last.request.pathname) # <<>>) =>
    /\ last.result.outcome = "response"
    /\ \/ last.result.status = 400 /\ last.result.error = "invalid email"
       \/ last.result.status = 200 /\ last.result.kind = "code" /\ last.result.code # <<>>
       \/ last.result.status = 404 /\ last.result.kind = "code" /\ last.result.code = <<>>

(* ---- C9 ---- *)
\* C9 as stated: an authorized GET for a valid address whose store read fails
\* is answered as if no record existed: 404 with an empty code.
C9_ReadFailureIsAbsent ==
  \A p \in LookupPaths :
    (last.op = "fetch" /\ IsAuthorizedGet(last.request)
       /\ last.request.pathname = p.pathname /\ ~last.readOk) =>
      /\ last.result.outcome = "response"
      /\ last.result.status = 404
      /\ last.result.code = <<>>

(* ---- C8 ---- *)
\* C8 as stated: the writes of one message are outstanding together, and the
\* promise handed to waitUntil settles only once every one of them has
\* settled, and is never rejected by a failed write.
C8_CompletionAfterAllWrites ==
  /\ last.op = "email" =>
       \A i \in 1..Len(last.puts) : last.puts[i].state = "pending"
  /\ \A g \in 1..Len(inflight) :
       inflight[g].tracked # "pending" =>
         \A t \in 1..Len(inflight[g].tasks) : inflight[g].tasks[t].state # "pending"
  /\ last.op = "put" =>
       /\ last.tracked # "rejected"
       /\ last.tracked # "pending" => last.outstanding = 0

====
